---- MODULE Spec2Model ----
(***************************************************************************)
(* bolt11-fixtures: the structural BOLT11 validator of src/src/index.ts.   *)
(*                                                                         *)
(* decodeBech32, parseBolt11Hrp, parseBolt11TaggedFields and               *)
(* looksLikeBolt11 are pure functions.  They are modelled as operators,    *)
(* and the state machine runs looksLikeBolt11 one check at a time (and the *)
(* tagged-field loop one iteration at a time) on inputs drawn in Init.     *)
(*                                                                         *)
(* A JavaScript string is a sequence of one-character strings, and an      *)
(* error message is the sequence of fragments whose concatenation is the   *)
(* message: a template literal is cut at its ${...} holes and around the   *)
(* words the tests match on.                                               *)
(***************************************************************************)
EXTENDS Integers, Sequences, FiniteSets, TLC

VARIABLES
  call,       \* the exported function under execution
  lib,        \* what bech32.decode(String(s), 2000) does on the invoice
  shape,      \* how the invoice's data words were put together (input only)
  hrpInput,   \* the argument of a direct parseBolt11Hrp call
  pc,         \* the position inside looksLikeBolt11
  dec,        \* const dec = decodeBech32(invoice)
  hrpParsed,  \* const hrpParsed = parseBolt11Hrp(dec.hrp)
  tagWords,   \* const tagWords = dec.words.slice(7, dec.words.length - 104)
  i,          \* parseBolt11TaggedFields: let i
  tags,       \* parseBolt11TaggedFields: const tags
  iters,      \* loop bodies of parseBolt11TaggedFields entered so far
  stages,     \* the checks looksLikeBolt11 has run, in order
  result      \* the value returned by the call, None before it returns

vars == <<call, lib, shape, hrpInput, pc, dec, hrpParsed, tagWords, i, tags,
          iters, stages, result>>

\* The longest digit run of a prefix given to parseBolt11Hrp directly.
MaxDigits == 4
\* The most pieces (tagged records, or fragments of one) between the
\* timestamp and the signature of a generated invoice.
MaxRecords == 2

None == [none |-> TRUE]
\* The value of a capture group that did not take part in the match.
Undefined == <<"undefined">>

(***************************************************************************)
(* Strings                                                                 *)
(***************************************************************************)
\* String.prototype.toLowerCase, on the characters the inputs use.
LowerOf(c) ==
  CASE c = "L" -> "l" [] c = "N" -> "n" [] c = "B" -> "b" [] c = "C" -> "c"
    [] c = "R" -> "r" [] c = "T" -> "t" [] c = "S" -> "s" [] c = "M" -> "m"
    [] c = "U" -> "u" [] c = "P" -> "p" [] c = "X" -> "x"
    [] OTHER -> c

ToLowerCase(s) == [k \in 1..Len(s) |-> LowerOf(s[k])]

\* The regular expression's \d (no u flag: the ten ASCII digits).
IsDigit(c) == c \in {"0", "1", "2", "3", "4", "5", "6", "7", "8", "9"}

\* The regular expression's [munp].
IsMultiplier(c) == c \in {"m", "u", "n", "p"}

StartsWith(s, p) == Len(s) >= Len(p) /\ SubSeq(s, 1, Len(p)) = p

Drop(s, n) == SubSeq(s, n + 1, Len(s))

\* A JavaScript string in a boolean context.
Truthy(s) == s # Undefined /\ s # <<>>

(***************************************************************************)
(* parseBolt11Hrp                                                          *)
(***************************************************************************)
\* The alternation (bc|tb|bcrt|tbs), in the order the engine tries it.
CurrencyAlternatives ==
  << <<"b", "c">>, <<"t", "b">>, <<"b", "c", "r", "t">>, <<"t", "b", "s">> >>

\* One attempt of (\d+)?([munp])?$ on the rest of the string: the digit
\* group takes d characters (0: the group is skipped), the multiplier group
\* takes one character or is skipped, and $ must then be at the end.
TailAttemptOk(rest, d, takeMult) ==
  /\ d <= Len(rest)
  /\ \A k \in 1..d : IsDigit(rest[k])
  /\ IF takeMult
       THEN Len(rest) = d + 1 /\ IsMultiplier(rest[d + 1])
       ELSE Len(rest) = d

\* The engine's order of attempts: greedy \d+ (longest run first, skipping
\* the group last), and for each, the multiplier group taken before skipped.
TailAttemptBefore(a, b) ==
  \/ a[1] > b[1]
  \/ a[1] = b[1] /\ a[2] /\ ~b[2]

\* (\d+)?([munp])?$ after the currency: the first attempt that succeeds, as
\* [m2, m3], or None.
RegexTail(rest) ==
  LET ok == {a \in (0..Len(rest)) \X BOOLEAN : TailAttemptOk(rest, a[1], a[2])}
  IN  IF ok = {} THEN None
      ELSE LET a == CHOOSE x \in ok : \A y \in ok \ {x} : TailAttemptBefore(x, y)
           IN  [m2 |-> IF a[1] = 0 THEN Undefined ELSE SubSeq(rest, 1, a[1]),
                m3 |-> IF a[2] THEN <<rest[a[1] + 1]>> ELSE Undefined]

\* /^ln(bc|tb|bcrt|tbs)(\d+)?([munp])?$/.exec(hrp): None, or the groups.
RegexExec(hrp) ==
  LET try(k) == IF StartsWith(hrp, <<"l", "n">> \o CurrencyAlternatives[k])
                  THEN RegexTail(Drop(hrp, 2 + Len(CurrencyAlternatives[k])))
                  ELSE None
      hits == {k \in 1..Len(CurrencyAlternatives) : try(k) # None}
  IN  IF hits = {} THEN None
      ELSE LET k == CHOOSE x \in hits : \A y \in hits : x <= y
           IN  [m1 |-> CurrencyAlternatives[k], m2 |-> try(k).m2, m3 |-> try(k).m3]

HrpError(hrp, why) ==
  [ok |-> FALSE,
   error |-> IF why = ""
               THEN <<"unexpected hrp for BOLT11", " (hrp=">> \o hrp \o <<")">>
               ELSE <<"unexpected hrp for BOLT11", " (", why, ", hrp=">> \o hrp \o <<")">>]

NetworkOf(currency) ==
  IF currency = <<"b", "c">> THEN "mainnet"
  ELSE IF currency = <<"t", "b">> THEN "testnet"
  ELSE IF currency = <<"b", "c", "r", "t">> THEN "regtest"
  ELSE "signet"

\* The parser as it was before the multiplier-without-amount check.
parseBolt11HrpNoMultiplierCheck(hrpArg) ==
  LET hrp == ToLowerCase(hrpArg)
      m == RegexExec(hrp)
  IN  IF m = None THEN HrpError(hrp, "")
      ELSE IF Truthy(m.m2) /\ Len(m.m2) > 1 /\ m.m2[1] = "0"
        THEN HrpError(hrp, "leading zeros")
      ELSE IF Truthy(m.m2) /\ m.m2 = <<"0">>
        THEN HrpError(hrp, "zero amount")
      ELSE [ok |-> TRUE, hrp |-> hrp, currency |-> m.m1, network |-> NetworkOf(m.m1),
            amountDigits |-> m.m2, multiplier |-> m.m3]

\* The parser without the zero-amount check.
parseBolt11HrpNoZeroCheck(hrpArg) ==
  LET hrp == ToLowerCase(hrpArg)
      m == RegexExec(hrp)
  IN  IF m = None THEN HrpError(hrp, "")
      ELSE IF Truthy(m.m3) /\ ~Truthy(m.m2)
        THEN HrpError(hrp, "multiplier without amount")
      ELSE IF Truthy(m.m2) /\ Len(m.m2) > 1 /\ m.m2[1] = "0"
        THEN HrpError(hrp, "leading zeros")
      ELSE [ok |-> TRUE, hrp |-> hrp, currency |-> m.m1, network |-> NetworkOf(m.m1),
            amountDigits |-> m.m2, multiplier |-> m.m3]

parseBolt11Hrp(hrpArg) ==
  LET hrp == ToLowerCase(hrpArg)
      m == RegexExec(hrp)
  IN  IF m = None THEN HrpError(hrp, "")
      ELSE IF Truthy(m.m3) /\ ~Truthy(m.m2)
        THEN HrpError(hrp, "multiplier without amount")
      ELSE IF Truthy(m.m2) /\ Len(m.m2) > 1 /\ m.m2[1] = "0"
        THEN HrpError(hrp, "leading zeros")
      ELSE IF Truthy(m.m2) /\ m.m2 = <<"0">>
        THEN HrpError(hrp, "zero amount")
      ELSE [ok |-> TRUE, hrp |-> hrp, currency |-> m.m1, network |-> NetworkOf(m.m1),
            amountDigits |-> m.m2, multiplier |-> m.m3]

(***************************************************************************)
(* decodeBech32                                                            *)
(***************************************************************************)
\* The reasons bech32.decode throws; the thrown Error's message stands for
\* itself as one fragment.
CodecErrors ==
  {"InvalidCharacter", "ChecksumMismatch", "MixedCase", "TooLong",
   "MissingSeparator", "MissingPrefix", "TailTooShort"}

\* try { bech32.decode } catch (e) { ok: false, error: e.message }
decodeBech32(outcome) ==
  IF outcome.threw
    THEN [ok |-> FALSE, error |-> outcome.message]
    ELSE [ok |-> TRUE, hrp |-> outcome.prefix, words |-> outcome.words]

(***************************************************************************)
(* parseBolt11TaggedFields                                                 *)
(***************************************************************************)
BECH32_ALPHABET ==
  <<"q", "p", "z", "r", "y", "9", "x", "8", "g", "f", "2", "t", "v", "d", "w", "0",
    "s", "3", "j", "n", "5", "4", "k", "h", "c", "e", "6", "m", "u", "a", "7", "l">>

\* words[k], with JavaScript's zero-based index.
At(words, k) == words[k + 1]

\* words[k] ?? 0
AtOr0(words, k) == IF k >= 0 /\ k < Len(words) THEN At(words, k) ELSE 0

\* BECH32_ALPHABET[t] ?? '?'
AlphabetChar(t) == IF t >= 0 /\ t < Len(BECH32_ALPHABET) THEN At(BECH32_ALPHABET, t) ELSE "?"

\* A shift one bit short.
ShiftLeftOneLess(a, n) == a * 2 ^ (n - 1)

\* a << n on operands that stay far below 2^31.
ShiftLeft(a, n) == a * 2 ^ n

\* a | b on non-negative operands, bit by bit.
RECURSIVE BitOr(_, _)
BitOr(a, b) ==
  IF a = 0 THEN b
  ELSE IF b = 0 THEN a
  ELSE (IF a % 2 = 1 \/ b % 2 = 1 THEN 1 ELSE 0) + 2 * BitOr(a \div 2, b \div 2)

Return(v) == [ret |-> TRUE, value |-> v]

\* The loop body without the header-truncation check.
parseBolt11TaggedFieldsBodyNoTruncation(words, i0, tags0) ==
  LET t == AtOr0(words, i0)
      tChar == AlphabetChar(t)
      len == BitOr(ShiftLeft(AtOr0(words, i0 + 1), 5), AtOr0(words, i0 + 2))
      i1 == i0 + 3
  IN  IF i1 + len > Len(words)
        THEN Return([ok |-> FALSE,
                     error |-> <<"tagged field ", "overruns", " section (type=", tChar,
                                 ", len=", ToString(len), ", i=", ToString(i1),
                                 ", words=", ToString(Len(words)), ")">>])
      ELSE [ret |-> FALSE, i |-> i1 + len,
            tags |-> Append(tags0, [type |-> tChar, len |-> len])]

\* The loop body that forgets to step over the header.
parseBolt11TaggedFieldsBodyNoHeaderAdvance(words, i0, tags0) ==
  IF i0 + 3 > Len(words)
    THEN Return([ok |-> FALSE,
                 error |-> <<"truncated", " tagged field header (i=", ToString(i0),
                             ", words=", ToString(Len(words)), ")">>])
  ELSE LET t == AtOr0(words, i0)
           tChar == AlphabetChar(t)
           len == BitOr(ShiftLeft(AtOr0(words, i0 + 1), 5), AtOr0(words, i0 + 2))
       IN  IF i0 + len > Len(words)
             THEN Return([ok |-> FALSE,
                          error |-> <<"tagged field ", "overruns", " section (type=", tChar,
                                      ", len=", ToString(len), ", i=", ToString(i0),
                                      ", words=", ToString(Len(words)), ")">>])
           ELSE [ret |-> FALSE, i |-> i0 + len,
                 tags |-> Append(tags0, [type |-> tChar, len |-> len])]

\* One pass through the body of while (i < words.length): a return, or the
\* new i and tags.
parseBolt11TaggedFieldsBody(words, i0, tags0) ==
  IF i0 + 3 > Len(words)
    THEN Return([ok |-> FALSE,
                 error |-> <<"truncated", " tagged field header (i=", ToString(i0),
                             ", words=", ToString(Len(words)), ")">>])
  ELSE LET t == AtOr0(words, i0)
           tChar == AlphabetChar(t)
           len == BitOr(ShiftLeft(AtOr0(words, i0 + 1), 5), AtOr0(words, i0 + 2))
           i1 == i0 + 3
       IN  IF len < 0
             THEN Return([ok |-> FALSE,
                          error |-> <<"invalid tagged field length (len=", ToString(len), ")">>])
           ELSE IF i1 + len > Len(words)
             THEN Return([ok |-> FALSE,
                          error |-> <<"tagged field ", "overruns", " section (type=", tChar,
                                      ", len=", ToString(len), ", i=", ToString(i1),
                                      ", words=", ToString(Len(words)), ")">>])
           ELSE [ret |-> FALSE, i |-> i1 + len,
                 tags |-> Append(tags0, [type |-> tChar, len |-> len])]

(***************************************************************************)
(* looksLikeBolt11, check by check                                         *)
(***************************************************************************)
minWords == 7 + 104

Continue == [ret |-> FALSE]

\* The decode failure passed on without its own prefix.
decodeFailedBare(d) ==
  IF ~d.ok THEN Return([ok |-> FALSE, error |-> d.error]) ELSE Continue

\* if (!dec.ok) return { ok: false, error: `bech32 decode failed: ...` }
decodeFailed(d) ==
  IF ~d.ok
    THEN Return([ok |-> FALSE, error |-> <<"bech32 decode failed", ": ">> \o d.error])
    ELSE Continue

\* if (!hrpParsed.ok) return hrpParsed
hrpRejected(hp) == IF ~hp.ok THEN Return(hp) ELSE Continue

\* The length check with <= for <.
dataTooShortInclusive(words) ==
  IF Len(words) <= minWords
    THEN Return([ok |-> FALSE,
                 error |-> <<"data part ", "too short", " for BOLT11 (words=",
                             ToString(Len(words)), ", min=", ToString(minWords), ")">>])
    ELSE Continue

\* if (dec.words.length < minWords) return ...
dataTooShort(words) ==
  IF Len(words) < minWords
    THEN Return([ok |-> FALSE,
                 error |-> <<"data part ", "too short", " for BOLT11 (words=",
                             ToString(Len(words)), ", min=", ToString(minWords), ")">>])
    ELSE Continue

\* const tagSectionLen = ...; if (tagSectionLen <= 0) return ...
tagSectionMissing(words) ==
  LET tagSectionLen == Len(words) - 7 - 104
  IN  IF tagSectionLen <= 0
        THEN Return([ok |-> FALSE,
                     error |-> <<"missing ", "tagged fields", " (words=",
                                 ToString(Len(words)), ")">>])
        ELSE Continue

\* Array.prototype.slice(start, end) with 0 <= start and 0 <= end.
Slice(words, start, end) ==
  LET e == IF end > Len(words) THEN Len(words) ELSE end
  IN  IF start >= e THEN <<>> ELSE SubSeq(words, start + 1, e)

\* dec.words.slice(7, dec.words.length - 104)
tagSection(words) == Slice(words, 7, Len(words) - 104)

RECURSIVE Join(_, _)
\* lens.join(sep), as fragments
Join(lens, sep) ==
  IF Len(lens) = 0 THEN <<>>
  ELSE IF Len(lens) = 1 THEN <<ToString(lens[1])>>
  ELSE <<ToString(lens[1]), sep>> \o Join(Tail(lens), sep)

\* The check that takes any 'p' record, whatever its length.
paymentHashCheckAnyLength(parsedTags, hrp) ==
  IF SelectSeq(parsedTags, LAMBDA t : t.type = "p") = <<>>
    THEN [ok |-> FALSE,
          error |-> <<"missing required", " tagged field ", "'p'", " (payment_hash)">>]
    ELSE [ok |-> TRUE, hrp |-> hrp]

\* The check with every() for some().
paymentHashCheckEvery(parsedTags, hrp) ==
  LET paymentHashTags == SelectSeq(parsedTags, LAMBDA t : t.type = "p")
  IN  IF Len(paymentHashTags) = 0
        THEN [ok |-> FALSE,
              error |-> <<"missing required", " tagged field ", "'p'", " (payment_hash)">>]
      ELSE IF ~\A k \in 1..Len(paymentHashTags) : paymentHashTags[k].len = 52
        THEN [ok |-> FALSE,
              error |-> <<"invalid 'p' tagged field length", " (expected 52 words, got ">>
                        \o Join([k \in 1..Len(paymentHashTags) |-> paymentHashTags[k].len], ",")
                        \o <<")">>]
      ELSE [ok |-> TRUE, hrp |-> hrp]

\* The check without the test for a missing 'p' record.
paymentHashCheckNoMissing(parsedTags, hrp) ==
  LET paymentHashTags == SelectSeq(parsedTags, LAMBDA t : t.type = "p")
  IN  IF ~\E k \in 1..Len(paymentHashTags) : paymentHashTags[k].len = 52
        THEN LET lens == Join([k \in 1..Len(paymentHashTags) |-> paymentHashTags[k].len], ",")
             IN  [ok |-> FALSE,
                  error |-> <<"invalid 'p' tagged field length",
                              " (expected 52 words, got ">>
                            \o (IF lens = <<>> THEN <<"none">> ELSE lens) \o <<")">>]
      ELSE [ok |-> TRUE, hrp |-> hrp]

\* The mandatory-field check and the accepting return.
paymentHashCheck(parsedTags, hrp) ==
  LET paymentHashTags == SelectSeq(parsedTags, LAMBDA t : t.type = "p")
  IN  IF Len(paymentHashTags) = 0
        THEN [ok |-> FALSE,
              error |-> <<"missing required", " tagged field ", "'p'", " (payment_hash)">>]
      ELSE IF ~\E k \in 1..Len(paymentHashTags) : paymentHashTags[k].len = 52
        THEN LET lens == Join([k \in 1..Len(paymentHashTags) |-> paymentHashTags[k].len], ",")
             IN  [ok |-> FALSE,
                  error |-> <<"invalid 'p' tagged field length",
                              " (expected 52 words, got ">>
                            \o (IF lens = <<>> THEN <<"none">> ELSE lens) \o <<")">>]
      ELSE [ok |-> TRUE, hrp |-> hrp]

(***************************************************************************)
(* Inputs                                                                  *)
(***************************************************************************)
Rep(v, n) == [k \in 1..n |-> v]

\* A piece of the tagged section: up to three header words followed by k data
\* words.  The header declares hdr[2] * 32 + hdr[3] data words; k may differ.
Piece(hdr, k) == [hdr |-> hdr, k |-> k]

\* Type 1 is 'p' and type 13 is 'd'.  <<declared length, data words>>:
\* exact records (0, 1 and 52 words), a declared 10 with 1 word behind it, a
\* declared 1 with 2 words behind it, and the largest 10-bit length.
PieceSet ==
  {Piece(<<t, s[1] \div 32, s[1] % 32>>, s[2]) :
     t \in {1, 13},
     s \in {<<0, 0>>, <<1, 1>>, <<52, 52>>, <<10, 1>>, <<1, 2>>, <<1023, 0>>}}
  \cup {Piece(<<1>>, 0), Piece(<<13, 0>>, 0)}

PieceSeqs == UNION {[1..n -> PieceSet] : n \in 0..MaxRecords}

\* The value of the timestamp, signature and data words.
Fills == {0, 31}

\* n words of timestamp and signature around the pieces; fewer than 111 only
\* without pieces.
Shapes ==
  {[pad |-> n, pieces |-> <<>>, fill |-> f] : n \in {0, 6, 110}, f \in Fills}
  \cup {[pad |-> minWords, pieces |-> ps, fill |-> f] : ps \in PieceSeqs, f \in Fills}

RECURSIVE Region(_, _)
Region(pieces, fill) ==
  IF pieces = <<>> THEN <<>>
  ELSE Head(pieces).hdr \o Rep(fill, Head(pieces).k) \o Region(Tail(pieces), fill)

BuildWords(sh) ==
  LET ts == IF sh.pad < 7 THEN sh.pad ELSE 7
  IN  Rep(sh.fill, ts) \o Region(sh.pieces, sh.fill) \o Rep(sh.fill, sh.pad - ts)

\* Prefixes the codec returns (it lowercases): three the grammar accepts and
\* three it rejects.
DecodedPrefixes ==
  { <<"l", "n", "b", "c">>,
    <<"l", "n", "t", "b", "2", "0", "m">>,
    <<"l", "n", "b", "c", "r", "t">>,
    <<"l", "n", "b", "c", "u">>,
    <<"l", "n", "b", "c", "0">>,
    <<"b", "c">> }

NoShape == [pad |-> 0, pieces |-> <<>>, fill |-> 0]

\* Arguments of a direct parseBolt11Hrp call: head, currency, digits, tail.
HrpHeads == { <<>>, <<"l", "n">>, <<"L", "N">>, <<"l", "N">>, <<"x", "l", "n">> }

HrpCurrencies ==
  { <<>>, <<"b", "c">>, <<"t", "b">>, <<"b", "c", "r", "t">>, <<"t", "b", "s">>,
    <<"b", "c", "r">>, <<"B", "C">> }

HrpDigitRuns == UNION {[1..n -> {"0", "2", "5"}] : n \in 0..MaxDigits}

HrpTails ==
  { <<>>, <<"m">>, <<"u">>, <<"n">>, <<"p">>, <<"M">>, <<"x">>, <<"m", "u">> }

HrpInputs ==
  {h \o c \o d \o t : h \in HrpHeads, c \in HrpCurrencies, d \in HrpDigitRuns, t \in HrpTails}

(***************************************************************************)
(* The state machine                                                       *)
(***************************************************************************)
Init ==
  /\ \/ /\ call = "looksLikeBolt11"
        /\ pc = "Decoding"
        /\ hrpInput = <<>>
        /\ \/ /\ shape = NoShape
              /\ \E e \in CodecErrors :
                   lib = [threw |-> TRUE, message |-> <<e>>, prefix |-> <<>>, words |-> <<>>]
           \/ /\ shape \in Shapes
              /\ \E h \in DecodedPrefixes :
                   lib = [threw |-> FALSE, message |-> <<>>, prefix |-> h,
                          words |-> BuildWords(shape)]
     \/ /\ call = "parseBolt11Hrp"
        /\ pc = "parseBolt11Hrp"
        /\ hrpInput \in HrpInputs
        /\ shape = NoShape
        /\ lib = [threw |-> FALSE, message |-> <<>>, prefix |-> <<>>, words |-> <<>>]
  /\ dec = None
  /\ hrpParsed = None
  /\ tagWords = <<>>
  /\ i = 0
  /\ tags = <<>>
  /\ iters = 0
  /\ stages = <<>>
  /\ result = None

\* A return statement of the running call.
Returns(v) == result' = v /\ pc' = "Done"

\* const dec = decodeBech32(invoice); if (!dec.ok) return ...
Decoding ==
  /\ pc = "Decoding"
  /\ dec' = decodeBech32(lib)
  /\ stages' = Append(stages, "Decoding")
  /\ IF decodeFailed(dec').ret
       THEN Returns(decodeFailed(dec').value)
       ELSE pc' = "GrammarCheck" /\ result' = result
  /\ UNCHANGED <<call, lib, shape, hrpInput, hrpParsed, tagWords, i, tags, iters>>

\* const hrpParsed = parseBolt11Hrp(dec.hrp); if (!hrpParsed.ok) return hrpParsed
GrammarCheck ==
  /\ pc = "GrammarCheck"
  /\ hrpParsed' = parseBolt11Hrp(dec.hrp)
  /\ stages' = Append(stages, "GrammarCheck")
  /\ IF hrpRejected(hrpParsed').ret
       THEN Returns(hrpRejected(hrpParsed').value)
       ELSE pc' = "LengthCheck" /\ result' = result
  /\ UNCHANGED <<call, lib, shape, hrpInput, dec, tagWords, i, tags, iters>>

\* The minWords check.
LengthCheck ==
  /\ pc = "LengthCheck"
  /\ stages' = Append(stages, "LengthCheck")
  /\ IF dataTooShort(dec.words).ret
       THEN Returns(dataTooShort(dec.words).value)
       ELSE pc' = "RecordWalk" /\ result' = result
  /\ UNCHANGED <<call, lib, shape, hrpInput, dec, hrpParsed, tagWords, i, tags, iters>>

\* The tagSectionLen check, the slice and the call of parseBolt11TaggedFields
\* up to its loop.
RecordWalk ==
  /\ pc = "RecordWalk"
  /\ stages' = Append(stages, "RecordWalk")
  /\ IF tagSectionMissing(dec.words).ret
       THEN /\ Returns(tagSectionMissing(dec.words).value)
            /\ UNCHANGED <<tagWords, i, tags>>
       ELSE /\ tagWords' = tagSection(dec.words)
            /\ i' = 0
            /\ tags' = <<>>
            /\ pc' = "parseBolt11TaggedFields"
            /\ result' = result
  /\ UNCHANGED <<call, lib, shape, hrpInput, dec, hrpParsed, iters>>

\* while (i < words.length) { ... }: one pass.  A return of the parser is
\* returned by looksLikeBolt11 as it is (if (!parsed.ok) return ...).
TaggedFieldsLoop ==
  /\ pc = "parseBolt11TaggedFields"
  /\ i < Len(tagWords)
  /\ iters' = iters + 1
  /\ LET b == parseBolt11TaggedFieldsBody(tagWords, i, tags)
     IN  IF b.ret
           THEN Returns(b.value) /\ UNCHANGED <<i, tags>>
           ELSE i' = b.i /\ tags' = b.tags /\ UNCHANGED <<pc, result>>
  /\ UNCHANGED <<call, lib, shape, hrpInput, dec, hrpParsed, tagWords, stages>>

\* The loop condition fails: return { ok: true, tags }.
TaggedFieldsDone ==
  /\ pc = "parseBolt11TaggedFields"
  /\ ~(i < Len(tagWords))
  /\ pc' = "MandatoryFieldCheck"
  /\ UNCHANGED <<call, lib, shape, hrpInput, dec, hrpParsed, tagWords, i, tags,
                 iters, stages, result>>

\* The payment_hash checks and return { ok: true, hrp: hrpParsed.hrp }.
MandatoryFieldCheck ==
  /\ pc = "MandatoryFieldCheck"
  /\ stages' = Append(stages, "MandatoryFieldCheck")
  /\ Returns(paymentHashCheck(tags, hrpParsed.hrp))
  /\ UNCHANGED <<call, lib, shape, hrpInput, dec, hrpParsed, tagWords, i, tags, iters>>

\* A direct call of the exported parseBolt11Hrp.
ParseHrpCall ==
  /\ pc = "parseBolt11Hrp"
  /\ Returns(parseBolt11Hrp(hrpInput))
  /\ UNCHANGED <<call, lib, shape, hrpInput, dec, hrpParsed, tagWords, i, tags,
                 iters, stages>>

Next ==
  \/ Decoding
  \/ GrammarCheck
  \/ LengthCheck
  \/ RecordWalk
  \/ TaggedFieldsLoop
  \/ TaggedFieldsDone
  \/ MandatoryFieldCheck
  \/ ParseHrpCall

Spec == Init /\ [][Next]_vars

(***************************************************************************)
(* What the properties are stated with                                     *)
(***************************************************************************)
Contains(msg, frag) == \E k \in 1..Len(msg) : msg[k] = frag

\* frag2 occurs in msg after frag1.
Follows(msg, frag1, frag2) ==
  \E j, k \in 1..Len(msg) : j < k /\ msg[j] = frag1 /\ msg[k] = frag2

Returned == pc = "Done" /\ result # None

Validated == call = "looksLikeBolt11" /\ Returned

Rejected == Validated /\ ~result.ok

\* symbols[7 : len - 104] of the decoded data.
TaggedRegion ==
  IF Len(lib.words) - 104 < 8 THEN <<>> ELSE SubSeq(lib.words, 8, Len(lib.words) - 104)

\* The 10-bit big-endian length of the header at (zero-based) position h.
DeclaredLength(s, h) == s[h + 2] * 32 + s[h + 3]

\* The letter of the header at position h.
TypeLetter(s, h) == BECH32_ALPHABET[s[h + 1] + 1]

\* The slice is a chain of whole records from position h to its end.
RECURSIVE ConsumedExactly(_, _)
ConsumedExactly(s, h) ==
  \/ h = Len(s)
  \/ /\ h + 3 <= Len(s)
     /\ h + 3 + DeclaredLength(s, h) <= Len(s)
     /\ ConsumedExactly(s, h + 3 + DeclaredLength(s, h))

\* The header positions of that chain.
RECURSIVE HeaderPositions(_, _)
HeaderPositions(s, h) ==
  IF h + 3 > Len(s) \/ h + 3 + DeclaredLength(s, h) > Len(s) THEN {}
  ELSE {h} \cup HeaderPositions(s, h + 3 + DeclaredLength(s, h))

PaymentHashHeaders(s) == {h \in HeaderPositions(s, 0) : TypeLetter(s, h) = "p"}

\* The prefix grammar: ln, a currency, an optional digit run, an optional
\* multiplier, on the lowercased prefix; no multiplier without digits, no
\* leading zero, not "0".
GrammarParts(s) ==
  LET low == ToLowerCase(s)
  IN  {x \in [currency : {<<"b", "c">>, <<"t", "b">>, <<"b", "c", "r", "t">>, <<"t", "b", "s">>},
              nd : 0..Len(s), nm : {0, 1}] :
         /\ Len(low) = 2 + Len(x.currency) + x.nd + x.nm
         /\ SubSeq(low, 1, 2) = <<"l", "n">>
         /\ SubSeq(low, 3, 2 + Len(x.currency)) = x.currency
         /\ \A k \in 1..x.nd : IsDigit(low[2 + Len(x.currency) + k])
         /\ x.nm = 1 => IsMultiplier(low[Len(low)])}

DigitsOf(s, x) == SubSeq(ToLowerCase(s), 3 + Len(x.currency), 2 + Len(x.currency) + x.nd)

GrammarValid(s) ==
  \E x \in GrammarParts(s) :
    /\ x.nm = 1 => x.nd > 0
    /\ ~(x.nd > 1 /\ DigitsOf(s, x)[1] = "0")
    /\ DigitsOf(s, x) # <<"0">>

WellFormedPiece(p) == Len(p.hdr) = 3 /\ p.k = p.hdr[2] * 32 + p.hdr[3]

WellFormedShape ==
  /\ shape.pad = 7 + 104
  /\ shape.pieces # <<>>
  /\ \A k \in 1..Len(shape.pieces) : WellFormedPiece(shape.pieces[k])

Lnbc == <<"l", "n", "b", "c">>

(***************************************************************************)
(* Properties                                                              *)
(***************************************************************************)

\* C1: looksLikeBolt11 accepts only if the tagged region symbols[7 : len-104]
\* is non-empty, is a chain of whole records with nothing left over, and has
\* a 'p' record of declared length 52.  With the earlier checks passed and
\* the region well formed, it rejects when every 'p' record has another
\* length and accepts when any of several 'p' records has length 52.
C1_AcceptsOnlyWithPaymentHash52 ==
  Validated =>
    LET region == TaggedRegion
        ps == PaymentHashHeaders(region)
        has52 == \E h \in ps : DeclaredLength(region, h) = 52
    IN  /\ result.ok =>
             /\ ~lib.threw
             /\ Len(region) > 0
             /\ ConsumedExactly(region, 0)
             /\ has52
        /\ (/\ ~lib.threw
            /\ GrammarValid(lib.prefix)
            /\ Len(region) > 0
            /\ ConsumedExactly(region, 0))
           => (result.ok <=> has52)

C1_Witness ==
  /\ Validated
  /\ result.ok
  /\ Cardinality(PaymentHashHeaders(TaggedRegion)) = 2
  /\ \E h \in PaymentHashHeaders(TaggedRegion) : DeclaredLength(TaggedRegion, h) # 52

\* C2: a decodable invoice with a grammatical prefix whose data is 7 timestamp
\* words, whole tagged records including a 'p' record of length 52 (header
\* [1,1,20]), and 104 signature words is accepted, and the returned prefix is
\* the lowercased decoded prefix ("lnbc" for the 166-word single-'p' case).
C2_WellFormedInvoiceAccepted ==
  (/\ Validated
   /\ ~lib.threw
   /\ GrammarValid(lib.prefix)
   /\ WellFormedShape
   /\ \E k \in 1..Len(shape.pieces) : shape.pieces[k].hdr = <<1, 1, 20>>)
  => /\ result = [ok |-> TRUE, hrp |-> ToLowerCase(lib.prefix)]
     /\ (lib.prefix = Lnbc /\ Len(lib.words) = 166) => result.hrp = Lnbc

C2_Witness ==
  /\ Validated
  /\ lib.prefix = Lnbc
  /\ shape.pieces = <<Piece(<<1, 1, 20>>, 52)>>
  /\ Len(lib.words) = 166
  /\ result = [ok |-> TRUE, hrp |-> Lnbc]

\* C3: a decodable invoice with a grammatical prefix and at least 112 words
\* whose tagged region is a chain of whole records none of which has type 'p'
\* is rejected with a message that has "missing required" and then 'p'.
C3_MissingPaymentHashReported ==
  (/\ Validated
   /\ ~lib.threw
   /\ GrammarValid(lib.prefix)
   /\ Len(lib.words) >= 112
   /\ ConsumedExactly(TaggedRegion, 0)
   /\ PaymentHashHeaders(TaggedRegion) = {})
  => /\ ~result.ok
     /\ Follows(result.error, "missing required", "'p'")

C3_Witness ==
  /\ Validated
  /\ lib.prefix = Lnbc
  /\ shape.pieces = <<Piece(<<13, 0, 1>>, 1)>>
  /\ ~result.ok
  /\ Follows(result.error, "missing required", "'p'")

\* C4: a pass of the walker's loop at position i fails with "truncated" when
\* fewer than 3 words remain, fails with "overruns" when the header is whole
\* and its 10-bit length exceeds the words left after it, and fails in no
\* other case; an invoice whose only header declares 10 words with 1 word
\* before the signature is rejected with "overruns" or "truncated".
C4_LoopPass ==
  (pc = "parseBolt11TaggedFields" /\ i < Len(tagWords)) =>
    LET rem == Len(tagWords) - i
        over == rem >= 3 /\ DeclaredLength(tagWords, i) > rem - 3
    IN  /\ rem < 3 => (Rejected' /\ Contains(result'.error, "truncated"))
        /\ over => (Rejected' /\ Contains(result'.error, "overruns"))
        /\ (rem >= 3 /\ ~over) => (pc' = pc /\ result' = result)

C4_WalkerFailuresClassified ==
  /\ [][C4_LoopPass]_vars
  /\ [](( /\ Validated
          /\ ~lib.threw
          /\ GrammarValid(lib.prefix)
          /\ shape.pad = 7 + 104
          /\ \E t \in 0..31, f \in 0..31 :
               TaggedRegion = <<t, 0, 10, f>> )
        => ( /\ ~result.ok
             /\ \/ Contains(result.error, "overruns")
                \/ Contains(result.error, "truncated") ))

C4_Witness ==
  /\ Rejected
  /\ lib.prefix = Lnbc
  /\ shape.pieces = <<Piece(<<1, 0, 10>>, 1)>>
  /\ Contains(result.error, "overruns")

\* The walker has returned { ok: true, tags }.
WalkerSucceeded ==
  \/ pc = "MandatoryFieldCheck"
  \/ pc = "Done" /\ Contains(stages, "MandatoryFieldCheck")

\* The header position of record k when the records before it are laid end
\* to end from position 0.
RECURSIVE RecordStart(_, _)
RecordStart(ts, k) == IF k = 1 THEN 0 ELSE RecordStart(ts, k - 1) + 3 + ts[k - 1].len

\* C5: when the walker succeeds on a slice, its records are in left-to-right
\* order, record k has the type alphabet[symbols[h]] and the length
\* symbols[h+1]*32 + symbols[h+2] of its header position h, its data lies
\* inside the slice, and the sum of (3 + length) over the records is the
\* length of the slice.
C5_WalkerRecordsTileSlice ==
  WalkerSucceeded =>
    /\ tagWords = TaggedRegion
    /\ \A k \in 1..Len(tags) :
         LET h == RecordStart(tags, k)
         IN  /\ h + 3 <= Len(tagWords)
             /\ tags[k].type = TypeLetter(tagWords, h)
             /\ tags[k].len = DeclaredLength(tagWords, h)
             /\ h + 3 + tags[k].len <= Len(tagWords)
    /\ RecordStart(tags, Len(tags) + 1) = Len(tagWords)

C5_Witness ==
  /\ pc = "MandatoryFieldCheck"
  /\ Len(tags) = 2
  /\ tags[1] = [type |-> "d", len |-> 52]
  /\ tags[2] = [type |-> "p", len |-> 1]
  /\ Len(tagWords) = 59

\* C6: for a decodable invoice with a grammatical prefix and n data words,
\* n < 111 is rejected with "too short", n = 111 is rejected with "tagged
\* fields", and the walker runs only when n >= 112.
C6_LengthChecks ==
  (~lib.threw /\ GrammarValid(lib.prefix)) =>
    /\ (Validated /\ Len(lib.words) < 111) =>
         (~result.ok /\ Contains(result.error, "too short"))
    /\ (Validated /\ Len(lib.words) = 111) =>
         (~result.ok /\ Contains(result.error, "tagged fields"))
    /\ (pc = "parseBolt11TaggedFields" \/ iters > 0) => Len(lib.words) >= 112

C6_Witness ==
  /\ Rejected
  /\ lib.prefix = Lnbc
  /\ Len(lib.words) = 111
  /\ Contains(result.error, "tagged fields")
  /\ iters = 0

\* C7: parseBolt11Hrp succeeds exactly on the prefixes of the grammar (ln,
\* currency, optional digits, optional multiplier, anchored, on the lowercased
\* prefix) that have no multiplier without digits, no leading zero and not
\* the digits "0"; a success has multiplier => amountDigits and the network of
\* its currency; lnbc, lntb20m and lnbc2500u parse to their parts and lnbcu
\* does not parse.
C7_Parsed(arg, r) ==
  /\ r.ok <=> GrammarValid(arg)
  /\ r.ok =>
       /\ r.hrp = ToLowerCase(arg)
       /\ r.multiplier # Undefined => r.amountDigits # Undefined
       /\ \E x \in GrammarParts(arg) :
            /\ r.currency = x.currency
            /\ r.amountDigits = (IF x.nd = 0 THEN Undefined ELSE DigitsOf(arg, x))
            /\ r.multiplier = (IF x.nm = 0 THEN Undefined ELSE <<r.hrp[Len(r.hrp)]>>)
       /\ r.network = (CASE r.currency = <<"b", "c">> -> "mainnet"
                         [] r.currency = <<"t", "b">> -> "testnet"
                         [] r.currency = <<"b", "c", "r", "t">> -> "regtest"
                         [] r.currency = <<"t", "b", "s">> -> "signet")
  /\ arg = Lnbc =>
       r = [ok |-> TRUE, hrp |-> Lnbc, currency |-> <<"b", "c">>, network |-> "mainnet",
            amountDigits |-> Undefined, multiplier |-> Undefined]
  /\ arg = <<"l", "n", "t", "b", "2", "0", "m">> =>
       r = [ok |-> TRUE, hrp |-> arg, currency |-> <<"t", "b">>, network |-> "testnet",
            amountDigits |-> <<"2", "0">>, multiplier |-> <<"m">>]
  /\ arg = <<"l", "n", "b", "c", "2", "5", "0", "0", "u">> =>
       r = [ok |-> TRUE, hrp |-> arg, currency |-> <<"b", "c">>, network |-> "mainnet",
            amountDigits |-> <<"2", "5", "0", "0">>, multiplier |-> <<"u">>]
  /\ arg = <<"l", "n", "b", "c", "u">> => ~r.ok

C7_PrefixGrammar ==
  /\ (call = "parseBolt11Hrp" /\ Returned) => C7_Parsed(hrpInput, result)
  /\ (call = "looksLikeBolt11" /\ hrpParsed # None) => C7_Parsed(dec.hrp, hrpParsed)

C7_Witness ==
  /\ call = "parseBolt11Hrp"
  /\ Returned
  /\ hrpInput = <<"L", "N", "b", "c", "r", "t", "2", "5", "0", "0", "u">>
  /\ result.ok
  /\ result.currency = <<"b", "c", "r", "t">>
  /\ result.amountDigits = <<"2", "5", "0", "0">>
  /\ result.multiplier = <<"u">>

\* C8: when the codec rejects the input, looksLikeBolt11 returns a value with
\* ok = false and a message containing "bech32 decode failed", and runs none
\* of the grammar, length, walker and mandatory-field checks.
C8_CodecRejection ==
  (call = "looksLikeBolt11" /\ lib.threw) =>
    /\ pc \in {"Decoding", "Done"}
    /\ hrpParsed = None /\ iters = 0
    /\ pc = "Done" =>
         /\ result # None
         /\ ~result.ok
         /\ Contains(result.error, "bech32 decode failed")
         /\ Contains(result.error, lib.message[1])
         /\ stages = <<"Decoding">>

C8_Witness ==
  /\ Rejected
  /\ lib.threw
  /\ lib.message = <<"ChecksumMismatch">>
  /\ result.error = <<"bech32 decode failed", ": ", "ChecksumMismatch">>

StageOrder == <<"Decoding", "GrammarCheck", "LengthCheck", "RecordWalk", "MandatoryFieldCheck">>

\* The stage a rejection's message belongs to.
ReportedStage(msg) ==
  IF msg[1] = "bech32 decode failed" THEN "codec"
  ELSE IF msg[1] = "unexpected hrp for BOLT11" THEN "grammar"
  ELSE IF \/ Contains(msg, "too short") \/ Contains(msg, "tagged fields")
          \/ Contains(msg, "truncated") \/ Contains(msg, "overruns") THEN "structure"
  ELSE IF msg[1] = "missing required" \/ msg[1] = "invalid 'p' tagged field length"
    THEN "semantics"
  ELSE "other"

\* The first stage that has something to reject, and the checks run up to it.
EarliestFailure ==
  IF lib.threw THEN [stage |-> "codec", ran |-> 1]
  ELSE IF ~GrammarValid(lib.prefix) THEN [stage |-> "grammar", ran |-> 2]
  ELSE IF Len(lib.words) < 111 THEN [stage |-> "structure", ran |-> 3]
  ELSE IF Len(lib.words) = 111 \/ ~ConsumedExactly(TaggedRegion, 0)
    THEN [stage |-> "structure", ran |-> 4]
  ELSE IF ~\E h \in PaymentHashHeaders(TaggedRegion) : DeclaredLength(TaggedRegion, h) = 52
    THEN [stage |-> "semantics", ran |-> 5]
  ELSE [stage |-> "none", ran |-> 5]

\* C9: the checks run in the order Decoding, GrammarCheck, LengthCheck,
\* RecordWalk, MandatoryFieldCheck and stop at the first failure: a rejection
\* is the one failure of the earliest failing stage, and nothing after that
\* stage has run.
C9_FirstFailureReported ==
  call = "looksLikeBolt11" =>
    /\ Len(stages) <= Len(StageOrder)
    /\ stages = SubSeq(StageOrder, 1, Len(stages))
    /\ (pc = "Done") <=> (result # None)
    /\ Validated =>
         /\ Len(stages) = EarliestFailure.ran
         /\ result.ok <=> EarliestFailure.stage = "none"
         /\ ~result.ok => ReportedStage(result.error) = EarliestFailure.stage

C9_Witness ==
  /\ Rejected
  /\ lib.prefix = <<"l", "n", "b", "c", "u">>
  /\ Len(lib.words) < 111
  /\ ReportedStage(result.error) = "grammar"
  /\ stages = <<"Decoding", "GrammarCheck">>

\* C10: each pass of the walker's loop either returns or moves i forward by
\* at least 3 (by exactly 3 for a record of length 0) to a position inside
\* the slice, and the loop body runs at most ceil(len(symbols) / 3) times.
C10_LoopPass ==
  (pc = "parseBolt11TaggedFields" /\ i < Len(tagWords)) =>
    /\ pc' \in {"parseBolt11TaggedFields", "Done"}
    /\ pc' = "Done" => result' # None
    /\ pc' = "parseBolt11TaggedFields" =>
         /\ i' >= i + 3
         /\ i' = i + 3 + DeclaredLength(tagWords, i)
         /\ i' <= Len(tagWords)
    /\ iters' = iters + 1
    /\ iters' <= (Len(tagWords) + 2) \div 3

C10_WalkerTerminates == [][C10_LoopPass]_vars

C10_Witness ==
  /\ pc = "parseBolt11TaggedFields"
  /\ iters = 2
  /\ Len(tags) = 2
  /\ tags[2].len = 0
  /\ i = Len(tagWords)

====
